---- MODULE Spec2Model ----
(***************************************************************************)
(* RedoteWebSocketClient (src/src/websocket-client.ts) as a state machine. *)
(*                                                                         *)
(* The client's fields are variables.  The `ws` sockets it creates and the *)
(* timers it arms live in the environment (socks, timers).  Every          *)
(* JavaScript task (an API call, a socket event with all its listeners and *)
(* the promise continuations it releases, a timer callback) is one action. *)
(* A handler is an operator from a state record to a state record, so that *)
(* an action can run the handlers of one task one after the other.         *)
(***************************************************************************)
EXTENDS Integers, Sequences, FiniteSets, TLC

VARIABLES
    websocket,        \* this.websocket: Null or the id of a socket
    seq,              \* this.seq
    heartbeatTimer,   \* this.heartbeatTimer: Null, a pending timer id, or Stale
    reconnectTimer,   \* this.reconnectTimer: Null or a pending timer id
    isConnecting,     \* this.isConnecting
    shouldReconnect,  \* this.shouldReconnect
    uriValid,         \* whether `new WebSocket(config.uri)` accepts config.uri
    socks,            \* the state of every socket that is not yet closed
    timers,           \* the pending setTimeout timers
    wire,             \* per socket, the seq of every envelope written to it
    step,             \* what the last task emitted and sent, in order
    last,             \* the last task and its inputs
    disconnectCalled, \* whether disconnect() has ever been called
    bot               \* the Redote bot: isInitialized and its reply in progress

vars == <<websocket, seq, heartbeatTimer, reconnectTimer, isConnecting,
          shouldReconnect, uriValid, socks, timers, wire, step, last,
          disconnectCalled, bot>>

-----------------------------------------------------------------------------
(* Bounds of the model *)

MaxSockets == 2   \* sockets alive (created, 'close' not yet emitted) at once
MaxSends == 2     \* envelopes written to one socket
MaxSendSeq == 16  \* the counter up to which send() is called on its own
MaxNumber == 905  \* the largest number in an envelope given to the codec
MaxChain == 2     \* segments in a chain given to the text projections
MaxBatch == 2     \* frames for which a socket emits 'message' in one task

(* Program constants *)

RetryInterval == 3
HeartbeatAckInterval == 60000
HeartbeatExtInterval == 30000
KeyBytes == 16

Null == 0
Stale == -1

Token == "7f54749ef19aaf9966ed7a616982c016bda5dfba"
AppId == "647e8f23d15d890d5cc02700"
AppName == "walle-ad"
AppVersion == "0.21.0"
UserId == "user-1"
SellerId == "seller-1"

SockIds == 1..MaxSockets

(***************************************************************************)
(* A socket slot holds one live socket.  Its states refine ws readyState:  *)
(*   CONNECTING  handshake in progress                                     *)
(*   ABORTED     close() was called during the handshake (CLOSING); ws     *)
(*               will emit 'error' and 'close'                             *)
(*   OPEN        'open' was emitted                                        *)
(*   CLOSING     close() was called on the open socket; frames still come  *)
(*   ENDING      the peer's close frame or an error ended the receiver     *)
(*               (CLOSING); only 'close' is still to come                  *)
(*   NONE        no socket, or 'close' was emitted (CLOSED): nothing       *)
(*               refers to the socket any more and the slot is free        *)
(***************************************************************************)
SockStates == {"NONE", "CONNECTING", "ABORTED", "OPEN", "CLOSING", "ENDING"}

ReadyState(x) ==
    CASE x = "CONNECTING" -> "CONNECTING"
      [] x = "OPEN" -> "OPEN"
      [] x \in {"ABORTED", "CLOSING", "ENDING"} -> "CLOSING"
      [] OTHER -> "CLOSED"

Established == {"OPEN", "CLOSING", "ENDING"}

-----------------------------------------------------------------------------
(***************************************************************************)
(* MessageBuilder and MessageParser (src/src/message.ts).  A content       *)
(* string is given with what JSON.parse makes of it: it throws, or yields  *)
(* null, a scalar (no property is defined on it) or an object.  An option  *)
(* whose value is undefined is a field the record does not have.           *)
(***************************************************************************)

\* an object without properties
EmptyObject == [k \in {} |-> k]

MessageBuilder_text(str) == [type |-> "text", data |-> [text |-> str]]
MessageBuilder_image(options) == [type |-> "image", data |-> options]
MessageBuilder_video(options) == [type |-> "video", data |-> options]
MessageBuilder_voice(options) == [type |-> "voice", data |-> options]
MessageBuilder_card(content) == [type |-> "card", data |-> [content |-> content]]
MessageBuilder_note(noteId, options) ==
    [type |-> "note", data |-> [noteId |-> noteId] @@ options]
MessageBuilder_emoticon(id, options) ==
    [type |-> "emoticon", data |-> [id |-> id] @@ options]
MessageBuilder_at(userId, options) ==
    [type |-> "at", data |-> [userId |-> userId] @@ options]

\* the 19 values of MessageType
MessageType ==
    {"TEXT", "EMOTICON", "IMAGE", "VIDEO", "VOICE", "CARD", "NOTE", "HINT",
     "RICH_HINT", "SMILES", "GOODS_DETAIL", "GOODS_CARD", "COMMON",
     "GENERAL_CARD", "LIVE_CARD", "SERVICE_CARD", "BUSINESS_CARD", "WELCOME",
     "PURCHASE_COMMENTS"}

NotJson(str) == [text |-> str, parse |-> "throws", value |-> EmptyObject]
JsonObject(str, value) == [text |-> str, parse |-> "object", value |-> value]

Contents ==
    {NotJson("hello"), NotJson("{not json"), NotJson(""),
     [text |-> "null", parse |-> "null", value |-> EmptyObject],
     [text |-> "123", parse |-> "scalar", value |-> EmptyObject],
     JsonObject("{}", EmptyObject),
     JsonObject("{link:{preViewUrl:u1},size:{width:8,height:6}}",
                [link |-> [preViewUrl |-> "u1"],
                 size |-> [width |-> 8, height |-> 6]]),
     JsonObject("{url:u2,duration:3}", [url |-> "u2", duration |-> 3]),
     JsonObject("{id:e1,name:smile,url:u3}",
                [id |-> "e1", name |-> "smile", url |-> "u3"]),
     JsonObject("{id:,name:wink}", [id |-> "", name |-> "wink"])}

\* what a call returns, or that it threw
Returned(chain) == [threw |-> FALSE, chain |-> chain]
Thrown == [threw |-> TRUE, chain |-> <<>>]

\* the properties ks of an object that are defined
Pick(v, ks) == [k \in ks \cap DOMAIN v |-> v[k]]

\* JSON.parse throws on a text that is not JSON; reading a property of null
\* throws
TryThrows(content) == content.parse \in {"throws", "null"}

\* {url: imageData.link?.preViewUrl, width: imageData.size?.width,
\*  height: imageData.size?.height}
imageOptions(v) ==
    LET link == IF "link" \in DOMAIN v THEN v.link ELSE EmptyObject
        size == IF "size" \in DOMAIN v THEN v.size ELSE EmptyObject
    IN  [k \in (IF "preViewUrl" \in DOMAIN link THEN {"url"} ELSE {})
                \cup ({"width", "height"} \cap DOMAIN size) |->
            IF k = "url" THEN link.preViewUrl ELSE size[k]]

\* the try blocks of parseMessage
tryImage(content) ==
    IF TryThrows(content) THEN Thrown
    ELSE Returned(<<MessageBuilder_image(imageOptions(content.value))>>)

tryVideo(content) ==
    IF TryThrows(content) THEN Thrown
    ELSE Returned(<<MessageBuilder_video(
                        Pick(content.value, {"url", "duration"}))>>)

tryVoice(content) ==
    IF TryThrows(content) THEN Thrown
    ELSE Returned(<<MessageBuilder_voice(
                        Pick(content.value, {"url", "duration"}))>>)

tryEmoticon(content) ==
    IF TryThrows(content) THEN Thrown
    ELSE LET v == content.value
             id == IF "id" \in DOMAIN v /\ v.id # "" THEN v.id
                   ELSE content.text
         IN  Returned(<<MessageBuilder_emoticon(id, Pick(v, {"name", "url"}))>>)

\* the exception of the try block reaches the caller
parseImage_noCatch(content) == tryImage(content)

\* case 'IMAGE' with its catch block
parseImage(content) ==
    IF tryImage(content).threw
    THEN Returned(<<MessageBuilder_text(content.text)>>)
    ELSE tryImage(content)

parseVideo(content) ==
    IF tryVideo(content).threw
    THEN Returned(<<MessageBuilder_text(content.text)>>)
    ELSE tryVideo(content)

parseVoice(content) ==
    IF tryVoice(content).threw
    THEN Returned(<<MessageBuilder_text(content.text)>>)
    ELSE tryVoice(content)

parseEmoticon(content) ==
    IF tryEmoticon(content).threw
    THEN Returned(<<MessageBuilder_emoticon(content.text, EmptyObject)>>)
    ELSE tryEmoticon(content)

\* an unknown discriminator yields an empty chain
parseDefault_empty(content) == Returned(<<>>)

\* the default branch of parseMessage
parseDefault(content) == Returned(<<MessageBuilder_text(content.text)>>)

\* MessageParser.parseMessage
parseMessage(messageType, content) ==
    CASE messageType = "TEXT" -> Returned(<<MessageBuilder_text(content.text)>>)
      [] messageType = "IMAGE" -> parseImage(content)
      [] messageType = "VIDEO" -> parseVideo(content)
      [] messageType = "VOICE" -> parseVoice(content)
      [] messageType = "CARD" -> Returned(<<MessageBuilder_card(content.text)>>)
      [] messageType = "NOTE" ->
            Returned(<<MessageBuilder_note(content.text, EmptyObject)>>)
      [] messageType = "EMOTICON" -> parseEmoticon(content)
      [] OTHER -> parseDefault(content)

\* the fixed labels of chainToText, here in ASCII: in the source they are
\* U+56FE U+7247 (image), U+89C6 U+9891 (video), U+8BED U+97F3 (voice),
\* U+5361 U+7247 (card), U+7B14 U+8BB0 (note), U+8868 U+60C5 (emoticon) and
\* U+672A U+77E5 U+6D88 U+606F (unknown message), each in square brackets
Placeholder(type) ==
    CASE type = "image" -> "[image]"
      [] type = "video" -> "[video]"
      [] type = "voice" -> "[voice]"
      [] type = "card" -> "[card]"
      [] type = "note" -> "[note]"
      [] type = "emoticon" -> "[emoticon]"
      [] OTHER -> "[unknown message]"

\* a || b on optional strings: the property when defined and not empty
OrElse(data, k, other) ==
    IF k \in DOMAIN data /\ data[k] # "" THEN data[k] ELSE other

\* the callback of chain.map in chainToText
renderSegment(segment) ==
    CASE segment.type = "text" -> segment.data.text
      [] segment.type = "emoticon" ->
            OrElse(segment.data, "name", Placeholder("emoticon"))
      [] segment.type = "at" ->
            "@" \o OrElse(segment.data, "name", segment.data.userId)
      [] OTHER -> Placeholder(segment.type)

RECURSIVE join_spaced(_)
\* joins with a blank between the parts
join_spaced(strs) ==
    IF Len(strs) = 0 THEN ""
    ELSE IF Len(strs) = 1 THEN strs[1]
    ELSE strs[1] \o " " \o join_spaced(Tail(strs))

RECURSIVE join(_)
\* Array.prototype.join('')
join(strs) == IF Len(strs) = 0 THEN "" ELSE strs[1] \o join(Tail(strs))

\* MessageParser.chainToText
chainToText(chain) == join([i \in DOMAIN chain |-> renderSegment(chain[i])])

RECURSIVE getSegmentsByType_reversed(_, _)
\* the matching segments, last first
getSegmentsByType_reversed(chain, type) ==
    IF Len(chain) = 0 THEN <<>>
    ELSE getSegmentsByType_reversed(Tail(chain), type)
         \o (IF chain[1].type = type THEN <<chain[1]>> ELSE <<>>)

\* MessageParser.getSegmentsByType
getSegmentsByType(chain, type) == SelectSeq(chain, LAMBDA sg : sg.type = type)

\* MessageParser.getTextContent
getTextContent(chain) ==
    LET segs == getSegmentsByType(chain, "text")
    IN  join([i \in DOMAIN segs |-> segs[i].data.text])

\* segments of every kind, with and without their optional data
Segments ==
    {MessageBuilder_text("hi"), MessageBuilder_text("!"),
     MessageBuilder_image([url |-> "u1"]),
     MessageBuilder_image([file |-> "f1"]),
     MessageBuilder_video([url |-> "u2", duration |-> 3]),
     MessageBuilder_voice(EmptyObject),
     MessageBuilder_card("c1"),
     MessageBuilder_note("n1", [title |-> "t1"]),
     MessageBuilder_emoticon("e1", EmptyObject),
     MessageBuilder_emoticon("e1", [name |-> "smile"]),
     MessageBuilder_emoticon("e2", [name |-> ""]),
     MessageBuilder_at("u9", EmptyObject),
     MessageBuilder_at("u9", [name |-> "Ann"]),
     [type |-> "sticker", data |-> EmptyObject]}

Chains == UNION {[1..n -> Segments] : n \in 0..MaxChain}

-----------------------------------------------------------------------------
(* Inbound frames *)

NoData == "<no data>"
SecureKey == <<107, 49>>
UnknownType == 99

\* data.payload.sixin_message of a push: all its fields, and the least that
\* a payload can hold
Payloads ==
    <<[message_type |-> "TEXT", message_id |-> "m1", sender_user_id |-> "u1",
       sender_name |-> "Ann", content |-> NotJson("hello")],
      [message_type |-> "IMAGE"]>>

\* bytes that JSON.parse rejects
Garbage == [unparseable |-> TRUE]

Frames ==
    {Garbage}
    \cup {[type |-> 2, seq |-> 3, dataType |-> "PUSH_SIXINTONG_MSG",
           payload |-> Payloads[1]],
          [type |-> 2, seq |-> 7, dataType |-> "PUSH_SIXINTONG_MSG"],
          [type |-> 2, seq |-> 3, dataType |-> NoData]}
    \cup {[type |-> 129, secureKey |-> SecureKey]}
    \cup {[type |-> t] : t \in {4, 129, 132, 138, 140, UnknownType}}

-----------------------------------------------------------------------------
(* The state record the handlers work on *)

Cur ==
    [websocket |-> websocket, seq |-> seq, heartbeatTimer |-> heartbeatTimer,
     reconnectTimer |-> reconnectTimer, isConnecting |-> isConnecting,
     shouldReconnect |-> shouldReconnect, uriValid |-> uriValid,
     socks |-> socks, timers |-> timers, wire |-> wire, step |-> <<>>, threw |-> FALSE,
     overflow |-> FALSE, disconnectCalled |-> disconnectCalled, bot |-> bot]

Commit(c, label) ==
    /\ websocket' = c.websocket
    /\ seq' = c.seq
    /\ heartbeatTimer' = c.heartbeatTimer
    /\ reconnectTimer' = c.reconnectTimer
    /\ isConnecting' = c.isConnecting
    /\ shouldReconnect' = c.shouldReconnect
    /\ uriValid' = c.uriValid
    /\ socks' = c.socks
    /\ timers' = c.timers
    /\ wire' = c.wire
    /\ step' = c.step
    /\ last' = label
    /\ disconnectCalled' = c.disconnectCalled
    /\ bot' = c.bot

Bounded(c) == ~c.overflow /\ \A s \in SockIds : Len(c.wire[s]) <= MaxSends

Created(c) == {s \in SockIds : c.socks[s] # "NONE"}

Emit(c, name) == [c EXCEPT !.step = Append(@, [ev |-> "emit", name |-> name])]

EmitWith(c, name, arg) ==
    [c EXCEPT !.step = Append(@, [ev |-> "emit", name |-> name, arg |-> arg])]

Throw(c) == [c EXCEPT !.threw = TRUE]

\* a rejected promise nobody awaits
Unhandled(c) ==
    IF c.threw
    THEN [c EXCEPT !.threw = FALSE,
                   !.step = Append(@, [ev |-> "unhandledRejection"])]
    ELSE c

\* a caught exception that is only logged
Logged(c) ==
    IF c.threw
    THEN [c EXCEPT !.threw = FALSE, !.step = Append(@, [ev |-> "logError"])]
    ELSE c

\* the bot before any reply, after initialize()
NewBot ==
    [isInitialized |-> TRUE, websocketClient |-> TRUE, pc |-> "idle",
     userId |-> "",
     x |-> [kind |-> "string", text |-> "", chain |-> <<>>],
     i |-> 0, stage |-> "none", sent |-> <<>>, results |-> <<>>]

-----------------------------------------------------------------------------
(* Timers *)

TimerIds(c) == {t.id : t \in c.timers}

FreshTimer(c) ==
    CHOOSE i \in 1..(Cardinality(c.timers) + 1) : i \notin TimerIds(c)

SetTimeout(c, kind, ms) ==
    [c EXCEPT !.timers = @ \cup {[id |-> FreshTimer(c), kind |-> kind,
                                  ms |-> ms, left |-> ms]}]

ClearTimeout(c, id) == [c EXCEPT !.timers = {t \in @ : t.id # id}]

Pending(kind) == {t \in timers : t.kind = kind}

-----------------------------------------------------------------------------
(* Redote.handleRawMessage, the bot's listener of the client's rawMessage *)

\* the MessageEvent built from a push with a payload (its timestamp and its
\* reply function are not part of the record: the function is reply below)
messageEvent(rawMessage, chain) ==
    LET payload == rawMessage.payload
    IN  [messageId |-> OrElse(payload, "message_id", "unknown"),
         userId |-> OrElse(payload, "sender_user_id", "unknown"),
         chain |-> chain,
         raw |-> rawMessage]
        @@ Pick([userName |-> OrElse(payload, "sender_name", "")],
                IF "sender_name" \in DOMAIN payload THEN {"userName"} ELSE {})

\* the try block of handleRawMessage once the payload is known to be there
buildAndEmit(c, rawMessage) ==
    LET payload == rawMessage.payload
        content == IF "content" \in DOMAIN payload THEN payload.content
                   ELSE NotJson("")
        messageType == IF "message_type" \in DOMAIN payload
                       THEN payload.message_type ELSE "undefined"
        parsed == parseMessage(messageType, content)
    IN  IF parsed.threw
        THEN Emit(c, "error")
        ELSE EmitWith(c, "message", messageEvent(rawMessage, parsed.chain))

\* emits the message event of every push, also of one without a payload
handleRawMessage_noPayloadCheck(c, rawMessage) ==
    buildAndEmit(c, IF "payload" \in DOMAIN rawMessage THEN rawMessage
                    ELSE rawMessage @@ [payload |-> Payloads[2]])

\* Redote.handleRawMessage
handleRawMessage(c, rawMessage) ==
    IF "payload" \notin DOMAIN rawMessage
    THEN c
    ELSE buildAndEmit(c, rawMessage)

-----------------------------------------------------------------------------
(* RedoteWebSocketClient *)

\* the envelope carries the counter, which is never advanced
send_noIncrement(c, data) ==
    IF c.websocket = Null \/ ReadyState(c.socks[c.websocket]) # "OPEN"
    THEN Throw(c)
    ELSE IF "type" \notin DOMAIN data
    THEN Throw(c)
    ELSE LET message == [f \in DOMAIN data \cup {"seq"} |->
                            IF f = "seq" THEN c.seq ELSE data[f]]
         IN  [c EXCEPT !.wire[c.websocket] = Append(@, c.seq),
                       !.step = Append(@, [ev |-> "send", sock |-> c.websocket,
                                           msg |-> message])]

\* Object.assign(data, {seq: ++this.seq}): the caller's object is the message
messageLiteral_inPlace(data, counter) ==
    LET n == counter + 1
        m == [f \in DOMAIN data \cup {"seq"} |->
                 IF f = "seq" THEN n ELSE data[f]]
    IN  [message |-> m, data |-> m, seq |-> n]

\* const message = {type: data.type, ...data, seq: ++this.seq}: the new
\* object, the caller's object and the counter after the statement
messageLiteral(data, counter) ==
    LET n == counter + 1
        m == [f \in DOMAIN data \cup {"seq"} |->
                 IF f = "seq" THEN n ELSE data[f]]
    IN  [message |-> m, data |-> data, seq |-> n]

\* advances the counter before it looks at the envelope
send_countFirst(c, data) ==
    IF c.websocket = Null \/ ReadyState(c.socks[c.websocket]) # "OPEN"
    THEN Throw(c)
    ELSE IF "type" \notin DOMAIN data
    THEN Throw([c EXCEPT !.seq = @ + 1])
    ELSE LET o == messageLiteral(data, c.seq)
         IN  [c EXCEPT !.seq = o.seq,
                       !.wire[c.websocket] = Append(@, o.message.seq),
                       !.step = Append(@, [ev |-> "send", sock |-> c.websocket,
                                           msg |-> o.message])]

send(c, data) ==
    IF c.websocket = Null \/ ReadyState(c.socks[c.websocket]) # "OPEN"
    THEN Throw(c)
    ELSE IF "type" \notin DOMAIN data
    THEN Throw(c)
    ELSE LET o == messageLiteral(data, c.seq)
         IN  [c EXCEPT !.seq = o.seq,
                       !.wire[c.websocket] = Append(@, o.message.seq),
                       !.step = Append(@, [ev |-> "send", sock |-> c.websocket,
                                           msg |-> o.message])]

sendAuthMessage(c) == send(c, [type |-> 1, token |-> Token, appId |-> AppId])

clearHeartbeat(c) ==
    IF c.heartbeatTimer # Null
    THEN [ClearTimeout(c, c.heartbeatTimer) EXCEPT !.heartbeatTimer = Null]
    ELSE c

\* arms a timer without cancelling the one already armed
startHeartbeat_noClear(c, interval) ==
    [SetTimeout(c, "heartbeat", interval) EXCEPT !.heartbeatTimer = FreshTimer(c)]

startHeartbeat(c, interval) ==
    LET c1 == clearHeartbeat(c)
    IN  [SetTimeout(c1, "heartbeat", interval)
            EXCEPT !.heartbeatTimer = FreshTimer(c1)]

\* arms a timer even when one is pending
scheduleReconnect_noDebounce(c) ==
    [SetTimeout(c, "reconnect", RetryInterval * 1000)
        EXCEPT !.reconnectTimer = FreshTimer(c)]

\* the retry interval is taken as milliseconds
scheduleReconnect_noScale(c) ==
    IF c.reconnectTimer # Null
    THEN c
    ELSE [SetTimeout(c, "reconnect", RetryInterval)
            EXCEPT !.reconnectTimer = FreshTimer(c)]

scheduleReconnect(c) ==
    IF c.reconnectTimer # Null
    THEN c
    ELSE [SetTimeout(c, "reconnect", RetryInterval * 1000)
            EXCEPT !.reconnectTimer = FreshTimer(c)]

\* the counter is left as it is
cleanup_keepSeq(c) == [clearHeartbeat(c) EXCEPT !.websocket = Null]

cleanup(c) ==
    [clearHeartbeat([c EXCEPT !.seq = 0]) EXCEPT !.websocket = Null]

\* RedoteCrypto.aesEcbEncrypt: the key window is computed as the code does;
\* the block cipher and the base64 re-encoding are kept symbolic
AdjustedKey(key) ==
    LET size == IF Len(key) <= 16 THEN 16 ELSE IF Len(key) <= 24 THEN 24 ELSE 32
    IN  [i \in 1..size |-> IF i <= Len(key) THEN key[i] ELSE 0]

aesEcbEncrypt(key, plaintext) ==
    [cipher |-> "aes-128-ecb", key |-> SubSeq(AdjustedKey(key), 1, KeyBytes),
     plaintext |-> plaintext, encoding |-> "base64url-unpadded"]

\* acknowledges with the client's own counter
handleServerPush_ackOwnSeq(c, m) ==
    LET r == send(c, [type |-> 130, ack |-> c.seq])
    IN  IF r.threw THEN r
        ELSE IF m.dataType = "PUSH_SIXINTONG_MSG"
        THEN handleRawMessage(EmitWith(r, "rawMessage", m), m)
        ELSE r

\* hands the push to the observers first and acknowledges afterwards
handleServerPush_dispatchFirst(c, m) ==
    LET r == IF m.dataType = "PUSH_SIXINTONG_MSG"
             THEN handleRawMessage(EmitWith(c, "rawMessage", m), m)
             ELSE c
    IN  send(r, [type |-> 130, ack |-> m.seq])

\* case 2 of handleMessage
handleServerPush(c, m) ==
    LET r == send(c, [type |-> 130, ack |-> m.seq])
    IN  IF r.threw THEN r
        ELSE IF m.dataType = "PUSH_SIXINTONG_MSG"
        THEN handleRawMessage(EmitWith(r, "rawMessage", m), m)
        ELSE r

\* encrypts the seller id instead of the user id
handleSecureKey_sellerId(c, m) ==
    IF "secureKey" \notin DOMAIN m
    THEN Throw(c)
    ELSE send(c, [type |-> 10, topic |-> aesEcbEncrypt(m.secureKey, SellerId),
                  encrypt |-> TRUE])

\* case 129 of handleMessage
handleSecureKey(c, m) ==
    IF "secureKey" \notin DOMAIN m
    THEN Throw(c)
    ELSE send(c, [type |-> 10, topic |-> aesEcbEncrypt(m.secureKey, UserId),
                  encrypt |-> TRUE])

\* reports the seller id as user id and the user id as seller id
handleInfoRequest_swapIds(c) ==
    send(c, [type |-> 12,
             data |-> [userAgent |-> [appName |-> AppName,
                                      appVersion |-> AppVersion],
                       additionalInfo |-> [userId |-> SellerId,
                                           sellerId |-> UserId]]])

\* case 138 of handleMessage
handleInfoRequest(c) ==
    send(c, [type |-> 12,
             data |-> [userAgent |-> [appName |-> AppName,
                                      appVersion |-> AppVersion],
                       additionalInfo |-> [userId |-> UserId,
                                           sellerId |-> SellerId]]])

\* handleMessage; .threw is set when the async function rejects
handleMessage(c, m) ==
    CASE m.type = 2 -> handleServerPush(c, m)
      [] m.type = 4 -> send(c, [type |-> 132])
      [] m.type = 129 -> handleSecureKey(c, m)
      [] m.type = 132 -> startHeartbeat(c, HeartbeatAckInterval)
      [] m.type = 138 -> handleInfoRequest(c)
      [] m.type = 140 -> startHeartbeat(c, HeartbeatExtInterval)
      [] OTHER -> c

\* a frame that does not parse is reported to the observers
onMessage_reportsParseError(c, frame) ==
    IF frame = Garbage
    THEN Emit(c, "error")
    ELSE Unhandled(handleMessage(c, frame))

\* the socket's 'message' listener: handleMessage is not awaited
onMessage(c, frame) ==
    IF frame = Garbage THEN c ELSE Unhandled(handleMessage(c, frame))

\* handleMessage up to its first await: the call of send() in the cases 2, 4,
\* 129 and 138, which writes to the socket or throws before it returns its
\* promise; all of the cases 132 and 140, which await nothing
beforeAwait(c, m) ==
    IF m.type = 2 THEN send(c, [type |-> 130, ack |-> m.seq])
    ELSE handleMessage(c, m)

\* handleMessage after its await, in a microtask: the rejection that nobody
\* handles, or the rest of case 2
afterAwait(c, m, rejected) ==
    IF rejected THEN Unhandled(Throw(c))
    ELSE IF m.type = 2 /\ m.dataType = "PUSH_SIXINTONG_MSG"
    THEN handleRawMessage(EmitWith(c, "rawMessage", m), m)
    ELSE c

RECURSIVE beforeAwaits(_, _)
\* the message listener for each frame in turn, when the socket emits
\* 'message' for several frames within one task: the state after them and,
\* per frame, whether its handleMessage rejects
beforeAwaits(c, frames) ==
    IF Len(frames) = 0
    THEN [c |-> c, rejected |-> <<>>]
    ELSE LET r == beforeAwait(c, Head(frames))
             rest == beforeAwaits([r EXCEPT !.threw = FALSE], Tail(frames))
         IN  [c |-> rest.c, rejected |-> <<r.threw>> \o rest.rejected]

RECURSIVE afterAwaits_lifo(_, _, _)
\* the continuations run last first
afterAwaits_lifo(c, frames, rejected) ==
    IF Len(frames) = 0 THEN c
    ELSE afterAwait(afterAwaits_lifo(c, Tail(frames), Tail(rejected)),
                    Head(frames), Head(rejected))

RECURSIVE afterAwaits(_, _, _)
\* the microtask queue is first in, first out: the continuations run in the
\* order in which handleMessage was called
afterAwaits(c, frames, rejected) ==
    IF Len(frames) = 0 THEN c
    ELSE afterAwaits(afterAwait(c, Head(frames), Head(rejected)),
                     Tail(frames), Tail(rejected))

\* the task in which the socket emits 'message' for several frames
onMessages(c, frames) ==
    LET b == beforeAwaits(c, frames)
    IN  afterAwaits(b.c, frames, b.rejected)

\* the promise connect() returned settles when the function ends: it rejects
\* with what the function threw, else it resolves
connectSettles(c) ==
    IF c.threw
    THEN [c EXCEPT !.threw = FALSE,
                   !.step = Append(@, [ev |-> "connectRejected"])]
    ELSE [c EXCEPT !.step = Append(@, [ev |-> "connectResolved"])]

\* arms the reconnect timer whatever shouldReconnect says
connectCatch_alwaysSchedule(c) ==
    connectSettles(
        scheduleReconnect(Emit([c EXCEPT !.isConnecting = FALSE], "error")))

\* the catch block reports the error and throws it again
connectCatch_rethrow(c) ==
    LET c1 == Emit([c EXCEPT !.isConnecting = FALSE], "error")
    IN  connectSettles(
            Throw(IF c1.shouldReconnect THEN scheduleReconnect(c1) ELSE c1))

\* the catch block of connect(), the last statements of the function
connectCatch(c) ==
    LET c1 == Emit([c EXCEPT !.isConnecting = FALSE], "error")
    IN  connectSettles(
            IF c1.shouldReconnect THEN scheduleReconnect(c1) ELSE c1)

\* new WebSocket(uri): a socket in the first free slot, CONNECTING
newWebSocket(c) ==
    IF Created(c) # SockIds
    THEN LET s == CHOOSE x \in SockIds \ Created(c) :
                      \A y \in SockIds \ Created(c) : x <= y
         IN  [c EXCEPT !.socks[s] = "CONNECTING", !.websocket = s]
    ELSE [c EXCEPT !.overflow = TRUE]

\* the guard looks at isConnecting only
connect_noOpenCheck(c) ==
    IF c.isConnecting
    THEN c
    ELSE LET c1 == Emit([c EXCEPT !.isConnecting = TRUE], "reconnecting")
         IN  IF c1.uriValid THEN newWebSocket(c1) ELSE connectCatch(c1)

\* connect() up to its await
connect(c) ==
    IF c.isConnecting
       \/ (c.websocket # Null /\ ReadyState(c.socks[c.websocket]) = "OPEN")
    THEN c
    ELSE LET c1 == Emit([c EXCEPT !.isConnecting = TRUE], "reconnecting")
         IN  IF c1.uriValid THEN newWebSocket(c1) ELSE connectCatch(c1)

\* sends the client-info response right after the auth envelope, unasked
onceOpen_speculativeInfo(c, s) ==
    LET c1 == Emit([c EXCEPT !.isConnecting = FALSE], "connected")
        c2 == Unhandled(handleInfoRequest(Unhandled(sendAuthMessage(c1))))
    IN  [c2 EXCEPT !.step = Append(@, [ev |-> "connectResolved", sock |-> s])]

\* websocket.once('open', ...)
onceOpen(c, s) ==
    LET c1 == Emit([c EXCEPT !.isConnecting = FALSE], "connected")
        c2 == Unhandled(sendAuthMessage(c1))
    IN  [c2 EXCEPT !.step = Append(@, [ev |-> "connectResolved", sock |-> s])]

\* websocket.once('error', ...): the reject reaches the catch block only when
\* the promise is still pending, that is when the socket never opened
onceError(c) == [c EXCEPT !.isConnecting = FALSE]

\* websocket.on('error', ...)
onError(c) == Emit(c, "error")

\* reconnects whatever shouldReconnect says
onClose_alwaysReconnect(c) ==
    scheduleReconnect(cleanup(Emit(c, "disconnected")))

\* websocket.on('close', ...)
onClose(c) ==
    LET c1 == cleanup(Emit(c, "disconnected"))
    IN  IF c1.shouldReconnect THEN scheduleReconnect(c1) ELSE c1

\* ws: close() on a socket
wsClose(c, s) ==
    CASE c.socks[s] = "CONNECTING" -> [c EXCEPT !.socks[s] = "ABORTED"]
      [] c.socks[s] = "OPEN" -> [c EXCEPT !.socks[s] = "CLOSING"]
      [] OTHER -> c

\* leaves the heartbeat timer armed
disconnect_keepHeartbeat(c) ==
    LET c1 == [c EXCEPT !.shouldReconnect = FALSE, !.disconnectCalled = TRUE]
        c2 == IF c1.reconnectTimer # Null
              THEN [ClearTimeout(c1, c1.reconnectTimer)
                       EXCEPT !.reconnectTimer = Null]
              ELSE c1
    IN  IF c2.websocket # Null
        THEN [wsClose(c2, c2.websocket) EXCEPT !.websocket = Null]
        ELSE c2

disconnect(c) ==
    LET c1 == [c EXCEPT !.shouldReconnect = FALSE, !.disconnectCalled = TRUE]
        c2 == IF c1.reconnectTimer # Null
              THEN [ClearTimeout(c1, c1.reconnectTimer)
                       EXCEPT !.reconnectTimer = Null]
              ELSE c1
        c3 == clearHeartbeat(c2)
    IN  IF c3.websocket # Null
        THEN [wsClose(c3, c3.websocket) EXCEPT !.websocket = Null]
        ELSE c3

\* lets the failure of the ping escape the callback
heartbeatCallback_noCatch(c) == Unhandled(send(c, [type |-> 4]))

\* pings with the outbound code of the reply to an inbound 4
heartbeatCallback_ping132(c) == Logged(send(c, [type |-> 132]))

\* the setTimeout callback of startHeartbeat
heartbeatCallback(c) == Logged(send(c, [type |-> 4]))

\* the setTimeout callback of scheduleReconnect
reconnectCallback(c) == connect([c EXCEPT !.reconnectTimer = Null])

-----------------------------------------------------------------------------
(***************************************************************************)
(* Redote.sendMessageChain and the reply function of a MessageEvent        *)
(* (src/unnamed/part_004).  bot.sent lists the calls of the send paths in  *)
(* the order in which they were made, bot.results what the reply has       *)
(* collected.  A send path throws before any request, or waits for its     *)
(* HTTP requests one after the other: bot.stage is the request it waits    *)
(* for.  The response to the last request of the k-th call is modelled as  *)
(* [response |-> k].                                                       *)
(***************************************************************************)

\* the label sendMessageChain sends for a segment of a kind without a case
\* (in the source U+672A U+77E5 U+6D88 U+606F U+7C7B U+578B in brackets)
UnknownTypeLabel == "[unknown message type]"

\* the send path sendMessageChain takes for a segment, and its argument
segmentSend(segment) ==
    CASE segment.type = "text" ->
            [path |-> "sendText", arg |-> segment.data.text]
      [] segment.type = "image" /\ OrElse(segment.data, "file", "") # "" ->
            [path |-> "sendImage", arg |-> segment.data.file]
      [] segment.type = "image" ->
            [path |-> "sendText",
             arg |-> OrElse(segment.data, "url", Placeholder("image"))]
      [] segment.type = "card" ->
            [path |-> "sendCard", arg |-> segment.data.content]
      [] segment.type = "note" ->
            [path |-> "sendNote", arg |-> segment.data.noteId]
      [] segment.type = "emoticon" ->
            [path |-> "sendText",
             arg |-> OrElse(segment.data, "name", Placeholder("emoticon"))]
      [] segment.type = "at" ->
            [path |-> "sendText",
             arg |-> "@" \o OrElse(segment.data, "name", segment.data.userId)]
      [] OTHER -> [path |-> "sendText", arg |-> UnknownTypeLabel]

\* what sendMessage throws before its request, "" if nothing
sendMessageThrows(b, receiverId, content) ==
    IF ~b.isInitialized THEN "not initialized"
    ELSE IF receiverId = "" THEN "empty receiver"
    ELSE IF content = "" THEN "empty content"
    ELSE ""

\* what a send path throws before its first request, "" if nothing
sendThrows(b, path, receiverId, arg) ==
    IF path = "sendImage"
    THEN IF ~b.isInitialized THEN "not initialized"
         ELSE IF arg = "" THEN "empty file path"
         ELSE ""
    ELSE sendMessageThrows(b, receiverId, arg)

\* the first request of a send path: sendImage asks for an upload token,
\* uploads the file and then sends; the other paths send at once
firstStage(path) == IF path = "sendImage" THEN "token" ELSE "msg"

\* the reply is over
settled(b, pc) == [b EXCEPT !.pc = pc, !.i = 0, !.stage = "none"]

RECURSIVE sendMessageChain(_, _)
\* Redote.sendMessageChain from its i-th segment on, up to the first request
\* it has to wait for
sendMessageChain(b, i) ==
    IF i > Len(b.x.chain)
    THEN settled(b, "returned")
    ELSE LET s == segmentSend(b.x.chain[i])
             err == sendThrows(b, s.path, b.userId, s.arg)
             b1 == [b EXCEPT !.i = i,
                             !.sent = Append(@, [segment |-> i, path |-> s.path,
                                                 receiverId |-> b.userId,
                                                 arg |-> s.arg])]
         IN  IF err # ""
             THEN sendMessageChain(
                      [b1 EXCEPT !.results = Append(@, [error |-> err])], i + 1)
             ELSE [b1 EXCEPT !.pc = "sending", !.stage = firstStage(s.path)]

\* the loop ends at the first segment that fails
nextSegment_stopOnError(b, result) ==
    IF "error" \in DOMAIN result
    THEN settled([b EXCEPT !.results = Append(@, result)], "returned")
    ELSE sendMessageChain([b EXCEPT !.results = Append(@, result)], b.i + 1)

\* results.push of the try block or of the catch block, and the next turn of
\* the loop
nextSegment(b, result) ==
    sendMessageChain([b EXCEPT !.results = Append(@, result)], b.i + 1)

\* the send path in progress has settled with result
sendSettled(b, result) ==
    IF b.x.kind = "string"
    THEN settled([b EXCEPT !.results = <<result>>],
                 IF "error" \in DOMAIN result THEN "rejected" ELSE "returned")
    ELSE nextSegment(b, result)

\* the reply function of a MessageEvent
reply(b, event, x) ==
    LET b0 == [b EXCEPT !.userId = event.userId, !.x = x, !.pc = "idle",
                        !.i = 0, !.stage = "none", !.sent = <<>>,
                        !.results = <<>>]
    IN  IF x.kind = "string"
        THEN LET err == sendMessageThrows(b0, b0.userId, x.text)
                 b1 == [b0 EXCEPT !.sent = <<[segment |-> 0,
                                              path |-> "sendText",
                                              receiverId |-> b0.userId,
                                              arg |-> x.text]>>]
             IN  IF err # ""
                 THEN settled([b1 EXCEPT !.results = <<[error |-> err]>>],
                              "rejected")
                 ELSE [b1 EXCEPT !.pc = "sending", !.stage = "msg"]
        ELSE sendMessageChain(b0, 1)

\* the request that the send path in progress waits for settles
requestSettles(b, ok) ==
    IF ~ok
    THEN sendSettled(b, [error |-> "request failed"])
    ELSE CASE b.stage = "token" -> [b EXCEPT !.stage = "upload"]
           [] b.stage = "upload" ->
                LET err == sendMessageThrows(b, b.userId, "upload result")
                IN  IF err # "" THEN sendSettled(b, [error |-> err])
                    ELSE [b EXCEPT !.stage = "msg"]
           [] OTHER -> sendSettled(b, [response |-> Len(b.sent)])

\* Redote.stop
stop(c) ==
    LET c1 == IF c.bot.websocketClient THEN disconnect(c) ELSE c
    IN  [c1 EXCEPT !.bot.isInitialized = FALSE]

\* Redote.start
start(c) ==
    IF ~c.bot.isInitialized THEN Throw(c)
    ELSE IF ~c.bot.websocketClient THEN Throw(c)
    ELSE connect(c)

\* Redote.initialize; ok: the two requests for the user's data succeed.  The
\* client it creates is a new RedoteWebSocketClient
initialize(c, ok) ==
    IF c.bot.isInitialized THEN c
    ELSE IF ~ok THEN Throw(c)
    ELSE [c EXCEPT !.bot.isInitialized = TRUE, !.bot.websocketClient = TRUE,
                   !.websocket = Null, !.seq = 0, !.heartbeatTimer = Null,
                   !.reconnectTimer = Null, !.isConnecting = FALSE,
                   !.shouldReconnect = TRUE, !.disconnectCalled = FALSE]

\* the bot before a call of the application
beforeCall(b, receiverId, x) ==
    [b EXCEPT !.userId = receiverId, !.x = x, !.pc = "idle", !.i = 0,
              !.stage = "none", !.sent = <<>>, !.results = <<>>]

\* sendText, sendImage, sendNote or sendCard called by the application, up
\* to its first request
sendPath(b, path, receiverId, arg) ==
    LET b0 == beforeCall(b, receiverId,
                         [kind |-> "string", text |-> arg, chain |-> <<>>])
        err == sendThrows(b0, path, receiverId, arg)
        b1 == [b0 EXCEPT !.sent = <<[segment |-> 0, path |-> path,
                                     receiverId |-> receiverId,
                                     arg |-> arg]>>]
    IN  IF err # ""
        THEN settled([b1 EXCEPT !.results = <<[error |-> err]>>], "rejected")
        ELSE [b1 EXCEPT !.pc = "sending", !.stage = firstStage(path)]

\* getChats, getChatMessages, searchChats or switchStatus, up to its request
query(b, name) ==
    LET b0 == beforeCall(b, "", [kind |-> "string", text |-> "",
                                 chain |-> <<>>])
        b1 == [b0 EXCEPT !.sent = <<[segment |-> 0, path |-> name,
                                     receiverId |-> "", arg |-> ""]>>]
    IN  IF ~b.isInitialized
        THEN settled([b1 EXCEPT !.results = <<[error |-> "not initialized"]>>],
                     "rejected")
        ELSE [b1 EXCEPT !.pc = "sending", !.stage = "query"]

-----------------------------------------------------------------------------
(* Tasks *)

Init ==
    /\ websocket = Null
    /\ seq = 0
    /\ heartbeatTimer = Null
    /\ reconnectTimer = Null
    /\ isConnecting = FALSE
    /\ shouldReconnect = TRUE
    /\ uriValid \in BOOLEAN
    /\ socks = [s \in SockIds |-> "NONE"]
    /\ timers = {}
    /\ wire = [s \in SockIds |-> <<>>]
    /\ step = <<>>
    /\ last = [op |-> "new"]
    /\ disconnectCalled = FALSE
    /\ bot = NewBot

\* the application calls connect()
Connect ==
    LET c == connect(Cur)
    IN  Bounded(c) /\ Commit(c, [op |-> "connect"])

\* the application calls disconnect()
Disconnect ==
    LET c == disconnect(Cur)
    IN  Bounded(c) /\ Commit(c, [op |-> "disconnect"])

\* time passes until the next pending timer expires
Tick ==
    /\ \E t \in timers : t.left > 0
    /\ LET d == CHOOSE d \in {t.left : t \in {u \in timers : u.left > 0}} :
                    \A t \in timers : t.left > 0 => d <= t.left
           c == [Cur EXCEPT !.timers =
                    {[t EXCEPT !.left = IF @ > d THEN @ - d ELSE 0] : t \in @}]
       IN  Commit(c, [op |-> "tick", ms |-> d])

\* an expired timer fires: it is no longer pending, a handle to it goes stale
Fired(c, t) ==
    [c EXCEPT !.timers = @ \ {t},
              !.heartbeatTimer = IF @ = t.id THEN Stale ELSE @]

ReconnectFire ==
    \E t \in timers :
        /\ t.kind = "reconnect" /\ t.left = 0
        /\ LET c == reconnectCallback(Fired(Cur, t))
           IN  Bounded(c)
               /\ Commit(c, [op |-> "reconnectTimer", ms |-> t.ms,
                             left |-> t.left])

HeartbeatFire ==
    \E t \in timers :
        /\ t.kind = "heartbeat" /\ t.left = 0
        /\ LET c == heartbeatCallback(Fired(Cur, t))
           IN  Bounded(c)
               /\ Commit(c, [op |-> "heartbeatTimer", ms |-> t.ms,
                             left |-> t.left])

\* 'close' was emitted on the socket in slot s: the socket is gone
Closed(c, s) == [c EXCEPT !.socks[s] = "NONE", !.wire[s] = <<>>]

\* the handshake of socket s succeeds: 'open'
SockOpen ==
    \E s \in SockIds :
        /\ socks[s] = "CONNECTING"
        /\ LET c == onceOpen([Cur EXCEPT !.socks[s] = "OPEN"], s)
           IN  Bounded(c) /\ Commit(c, [op |-> "open", sock |-> s])

\* the handshake of socket s fails or was aborted by close(): ws emits 'error'
\* and 'close' back to back, then the rejected connect() runs its catch block
SockFail ==
    \E s \in SockIds :
        /\ socks[s] \in {"CONNECTING", "ABORTED"}
        /\ LET c == connectCatch(onClose(onceError(onError(Closed(Cur, s)))))
           IN  Commit(c, [op |-> "fail", sock |-> s])

\* an established socket reports an error and starts closing: 'error'
SockError ==
    \E s \in SockIds :
        /\ socks[s] \in {"OPEN", "CLOSING"}
        /\ LET c == onceError(onError([Cur EXCEPT !.socks[s] = "ENDING"]))
           IN  Commit(c, [op |-> "error", sock |-> s])

\* the peer starts the closing handshake of an open socket; no event yet
SockClosing ==
    \E s \in SockIds :
        /\ socks[s] = "OPEN"
        /\ Commit([Cur EXCEPT !.socks[s] = "ENDING"],
                  [op |-> "closing", sock |-> s])

\* an established socket is closed: 'close'
SockClose ==
    \E s \in SockIds :
        /\ socks[s] \in Established
        /\ LET c == onClose(Closed(Cur, s))
           IN  Commit(c, [op |-> "close", sock |-> s, was |-> socks[s]])

\* a frame arrives on an established socket: 'message'
SockMessage ==
    \E s \in SockIds, frame \in Frames :
        /\ socks[s] \in {"OPEN", "CLOSING"}
        /\ LET c == onMessage(Cur, frame)
           IN  Bounded(c)
               /\ Commit(c, [op |-> "message", sock |-> s, frame |-> frame])

Next ==
    \/ Connect
    \/ Disconnect
    \/ Tick
    \/ ReconnectFire
    \/ HeartbeatFire
    \/ SockOpen
    \/ SockFail
    \/ SockError
    \/ SockClosing
    \/ SockClose
    \/ SockMessage

Spec == Init /\ [][Next]_vars

-----------------------------------------------------------------------------
(***************************************************************************)
(* The socket may emit 'message' for several frames of one read within the *)
(* same task; the continuations of their handleMessage calls then run      *)
(* after all the listeners.                                                *)
(***************************************************************************)

BatchFrames ==
    {[type |-> 2, seq |-> 3, dataType |-> "PUSH_SIXINTONG_MSG",
      payload |-> Payloads[1]],
     [type |-> 2, seq |-> 5, dataType |-> "PUSH_SIXINTONG_MSG",
      payload |-> Payloads[2]],
     [type |-> 4], [type |-> 132], [type |-> 140]}

Batches == [1..MaxBatch -> BatchFrames]

BoundedBatch(c) ==
    ~c.overflow /\ \A s \in SockIds : Len(c.wire[s]) < MaxSends + MaxBatch

\* several frames arrive together on an established socket
SockMessages ==
    \E s \in SockIds, frames \in Batches :
        /\ socks[s] \in {"OPEN", "CLOSING"}
        /\ LET c == onMessages(Cur, frames)
           IN  BoundedBatch(c)
               /\ Commit(c, [op |-> "messages", sock |-> s, frames |-> frames])

\* the sockets connect, open and close without error, and every read of an
\* established socket holds several frames
BatchNext ==
    \/ Connect
    \/ Disconnect
    \/ Tick
    \/ HeartbeatFire
    \/ SockOpen
    \/ SockClosing
    \/ SockClose
    \/ SockMessages

BatchSpec == Init /\ [][BatchNext]_vars

-----------------------------------------------------------------------------
(***************************************************************************)
(* The client left to reconnect: disconnect() is never called, timers fire *)
(* and the events of a socket are delivered: a handshake ends in 'open' or *)
(* in 'error' and 'close', a socket that is closing emits 'close'.         *)
(***************************************************************************)

LiveNext ==
    \/ Connect
    \/ Tick
    \/ ReconnectFire
    \/ SockOpen
    \/ SockFail
    \/ SockError
    \/ SockClosing
    \/ SockClose

LiveSpec ==
    /\ Init
    /\ [][LiveNext]_vars
    /\ WF_vars(Tick)
    /\ WF_vars(ReconnectFire)
    /\ WF_vars(SockOpen \/ SockFail)
    /\ WF_vars(SockClose /\ last'.was # "OPEN")

-----------------------------------------------------------------------------
(* send() on its own: called with any partial envelope on an open socket *)

\* partial envelopes a caller may pass, with and without a seq of their own
CallerEnvelopes ==
    {[type |-> 4], [type |-> 132],
     [type |-> 4, seq |-> 0], [type |-> 4, seq |-> 1], [type |-> 4, seq |-> 41],
     [type |-> 130, ack |-> 7], [type |-> 130, ack |-> 7, seq |-> 41],
     [type |-> 1, token |-> Token, appId |-> AppId, seq |-> 2]}

\* the client after connect() and the 'open' of its first socket
SendInit ==
    /\ websocket = 1
    /\ seq = 1
    /\ heartbeatTimer = Null
    /\ reconnectTimer = Null
    /\ isConnecting = FALSE
    /\ shouldReconnect = TRUE
    /\ uriValid = TRUE
    /\ socks = [s \in SockIds |-> IF s = 1 THEN "OPEN" ELSE "NONE"]
    /\ timers = {}
    /\ wire = [s \in SockIds |-> IF s = 1 THEN <<1>> ELSE <<>>]
    /\ step = <<[ev |-> "emit", name |-> "connected"],
                [ev |-> "send", sock |-> 1,
                 msg |-> [type |-> 1, token |-> Token, appId |-> AppId,
                          seq |-> 1]],
                [ev |-> "connectResolved", sock |-> 1]>>
    /\ last = [op |-> "open", sock |-> 1]
    /\ disconnectCalled = FALSE
    /\ bot = NewBot

\* send(data); `after` is the caller's object when send() has returned
SendCall ==
    \E data \in CallerEnvelopes :
        /\ seq < MaxSendSeq
        /\ Commit(send(Cur, data),
                  [op |-> "send", data |-> data, before |-> seq,
                   after |-> messageLiteral(data, seq).data])

SendNext == SendCall

SendSpec == SendInit /\ [][SendNext]_vars

-----------------------------------------------------------------------------
(***************************************************************************)
(* send() called with envelopes with and without a type, while the socket  *)
(* is open, after the peer has started to close it, and after disconnect() *)
(***************************************************************************)

\* envelopes without a type
UntypedEnvelopes == {[ack |-> 7], [topic |-> "t", encrypt |-> TRUE]}

\* send(data), and whether it threw
TrySend ==
    \E data \in CallerEnvelopes \cup UntypedEnvelopes :
        /\ seq < MaxSendSeq
        /\ LET c == send(Cur, data)
           IN  Commit(c, [op |-> "trySend", data |-> data, threw |-> c.threw,
                          before |-> seq, wireBefore |-> wire])

TrySendNext == TrySend \/ Disconnect \/ SockClosing

TrySendSpec == SendInit /\ [][TrySendNext]_vars

-----------------------------------------------------------------------------
(***************************************************************************)
(* The codec: JSON.stringify(message) in send() and JSON.parse(text) in    *)
(* the message listener.  A text is a sequence of tokens: punctuation, a   *)
(* quoted string (its escaping is not modelled), a number as its decimal   *)
(* digits, a literal true or false.  An object is a record; a field whose  *)
(* value is undefined is a field the record does not have.                 *)
(***************************************************************************)

Punct(ch) == [t |-> "p", v |-> ch]
Str(str) == [t |-> "str", v |-> str]

RECURSIVE ToDigits_leastFirst(_)
\* writes the digits of a number in the reverse order
ToDigits_leastFirst(n) ==
    IF n < 10 THEN <<n>> ELSE <<n % 10>> \o ToDigits_leastFirst(n \div 10)

RECURSIVE ToDigits(_)
\* the decimal digits of a non-negative integer, as JSON.stringify writes it
ToDigits(n) == IF n < 10 THEN <<n>> ELSE Append(ToDigits(n \div 10), n % 10)

RECURSIVE FromDigits(_)
\* the number JSON.parse reads from decimal digits
FromDigits(ds) ==
    IF Len(ds) = 1
    THEN ds[1]
    ELSE 10 * FromDigits(SubSeq(ds, 1, Len(ds) - 1)) + ds[Len(ds)]

Num(n) == [t |-> "num", v |-> ToDigits(n)]
Lit(b) == [t |-> "lit", v |-> IF b THEN "true" ELSE "false"]

\* the fields of WebSocketMessage by the type of their value
NumberFields == {"type", "seq", "ack"}
StringFields == {"token", "appId", "topic", "secureKey"}
BooleanFields == {"encrypt"}

\* the order in which send() inserts the keys of the envelopes it is given
WireFields ==
    <<"type", "token", "appId", "ack", "topic", "encrypt", "secureKey",
      "data", "seq">>

RECURSIVE SeqOf(_)
\* the keys of an object, in some order
SeqOf(S) ==
    IF S = {} THEN <<>>
    ELSE LET x == CHOOSE y \in S : TRUE IN <<x>> \o SeqOf(S \ {x})

RECURSIVE Join(_)
\* the members of an object, separated by commas
Join(parts) ==
    IF Len(parts) = 0 THEN <<>>
    ELSE IF Len(parts) = 1 THEN parts[1]
    ELSE parts[1] \o <<Punct(",")>> \o Join(Tail(parts))

\* JSON.stringify of an object whose members are strings (the `data` field)
StringifyData(d) ==
    LET ks == SeqOf(DOMAIN d)
    IN  <<Punct("{")>>
        \o Join([i \in 1..Len(ks) |->
                    <<Str(ks[i]), Punct(":"), Str(d[ks[i]])>>])
        \o <<Punct("}")>>

ValueTokens(k, v) ==
    CASE k \in NumberFields -> <<Num(v)>>
      [] k \in StringFields -> <<Str(v)>>
      [] k \in BooleanFields -> <<Lit(v)>>
      [] OTHER -> StringifyData(v)

\* JSON.stringify(message)
JSON_stringify(e) ==
    LET ks == SelectSeq(WireFields, LAMBDA k : k \in DOMAIN e)
    IN  <<Punct("{")>>
        \o Join([i \in 1..Len(ks) |->
                    <<Str(ks[i]), Punct(":")>> \o ValueTokens(ks[i], e[ks[i]])])
        \o <<Punct("}")>>

RECURSIVE ParseValue(_, _), ParseMembers(_, _, _)
\* JSON.parse from token i: the value read and the position after it
ParseValue(toks, i) ==
    CASE toks[i].t = "num" -> [value |-> FromDigits(toks[i].v), next |-> i + 1]
      [] toks[i].t = "str" -> [value |-> toks[i].v, next |-> i + 1]
      [] toks[i].t = "lit" -> [value |-> (toks[i].v = "true"), next |-> i + 1]
      [] OTHER -> ParseMembers(toks, i + 1, EmptyObject)

\* the members of an object up to its closing brace; a repeated key keeps
\* the later value
ParseMembers(toks, i, acc) ==
    IF toks[i].t = "p" /\ toks[i].v = "}"
    THEN [value |-> acc, next |-> i + 1]
    ELSE LET j == IF toks[i].t = "p" /\ toks[i].v = "," THEN i + 1 ELSE i
             r == ParseValue(toks, j + 2)
         IN  ParseMembers(toks, r.next, (toks[j].v :> r.value) @@ acc)

\* JSON.parse(data.toString()) of a text that is valid JSON
JSON_parse(text) == ParseValue(text, 1).value

\* an envelope from its optional parts ("none", -1: the field is absent)
Envelope(type, sq, enc, tok, dat) ==
    [k \in {"type"}
            \cup (IF sq = -1 THEN {} ELSE {"seq"})
            \cup (IF enc = "none" THEN {} ELSE {"encrypt"})
            \cup (IF tok = "none" THEN {} ELSE {"token"})
            \cup (IF dat = "none" THEN {} ELSE {"data"}) |->
        CASE k = "type" -> type
          [] k = "seq" -> sq
          [] k = "encrypt" -> (enc = "true")
          [] k = "token" -> tok
          [] OTHER -> IF dat = "empty" THEN EmptyObject
                      ELSE [type |-> dat, id |-> "m-1"]]

\* well-formed envelopes: every field has a value of the type of its schema
WellFormedEnvelopes ==
    {Envelope(type, sq, enc, tok, dat) :
        type \in {1, 130}, sq \in {-1, 0, 10, MaxNumber},
        enc \in {"none", "true", "false"}, tok \in {"none", Token},
        dat \in {"none", "empty", "PUSH_SIXINTONG_MSG"}}

CodecInit == Init /\ uriValid

\* an envelope is encoded as send() encodes it, and the text is decoded as
\* the message listener decodes it
CodecRoundTrip ==
    \E e \in WellFormedEnvelopes :
        /\ last' = [op |-> "codec", e |-> e, text |-> JSON_stringify(e),
                    decoded |-> JSON_parse(JSON_stringify(e))]
        /\ UNCHANGED <<websocket, seq, heartbeatTimer, reconnectTimer,
                       isConnecting, shouldReconnect, uriValid, socks, timers,
                       wire, step, disconnectCalled, bot>>

CodecNext == CodecRoundTrip

CodecSpec == CodecInit /\ [][CodecNext]_vars

-----------------------------------------------------------------------------
(* MessageParser on its own: any discriminator, content and chain *)

MessageInit == Init /\ uriValid

\* parseMessage(messageType, content) with any discriminator and content
ParseCall ==
    \E messageType \in MessageType \cup {"SOME_NEW_KIND"}, content \in Contents :
        /\ last' = [op |-> "parseMessage", messageType |-> messageType,
                    content |-> content,
                    result |-> parseMessage(messageType, content)]
        /\ UNCHANGED <<websocket, seq, heartbeatTimer, reconnectTimer,
                       isConnecting, shouldReconnect, uriValid, socks, timers,
                       wire, step, disconnectCalled, bot>>

\* chainToText(chain) and getTextContent(chain) of any chain
ChainCall ==
    \E chain \in Chains :
        /\ last' = [op |-> "chain", chain |-> chain,
                    text |-> chainToText(chain),
                    textContent |-> getTextContent(chain)]
        /\ UNCHANGED <<websocket, seq, heartbeatTimer, reconnectTimer,
                       isConnecting, shouldReconnect, uriValid, socks, timers,
                       wire, step, disconnectCalled, bot>>

MessageNext == ParseCall \/ ChainCall

MessageSpec == MessageInit /\ [][MessageNext]_vars

-----------------------------------------------------------------------------
(* The reply function on its own: any event, any reply content *)

ReplyContents ==
    {[kind |-> "string", text |-> t, chain |-> <<>>] : t \in {"hello", ""}}
    \cup {[kind |-> "chain", text |-> "", chain |-> ch] : ch \in Chains}

\* the events that handleRawMessage builds from the payloads
Events ==
    {messageEvent([type |-> 2, seq |-> 3, dataType |-> "PUSH_SIXINTONG_MSG",
                   payload |-> Payloads[n]], <<>>) : n \in DOMAIN Payloads}

ReplyInit == Init /\ uriValid

\* an observer calls event.reply(x) while no reply is in progress
ReplyCall ==
    \E event \in Events, x \in ReplyContents :
        /\ bot.pc # "sending"
        /\ Commit([Cur EXCEPT !.bot = reply(bot, event, x)],
                  [op |-> "reply", event |-> event, x |-> x])

\* the HTTP request in flight succeeds or fails
RequestSettles ==
    \E ok \in BOOLEAN :
        /\ bot.pc = "sending"
        /\ Commit([Cur EXCEPT !.bot = requestSettles(bot, ok)],
                  [op |-> "requestSettles", ok |-> ok])

\* the application calls stop()
BotStop ==
    /\ bot.isInitialized
    /\ Commit(stop(Cur), [op |-> "stop"])

ReplyNext == ReplyCall \/ RequestSettles \/ BotStop

ReplySpec == ReplyInit /\ [][ReplyNext]_vars

-----------------------------------------------------------------------------
(***************************************************************************)
(* The life of a bot: constructed, initialized, started, stopped, and the  *)
(* calls of the application in each of these states.  A call is made while *)
(* no request of an earlier call is in flight; the application initializes *)
(* the bot again only when the sockets and timers of the client of the     *)
(* earlier initialization are gone.                                        *)
(***************************************************************************)

SendPaths == {"sendText", "sendImage", "sendNote", "sendCard"}

Queries == {"getChats", "getChatMessages", "searchChats", "switchStatus"}

\* the chains the application sends
CallChains == {ch \in Chains : Len(ch) <= 1}

\* the constructor: no client, not initialized
BotInit ==
    /\ websocket = Null
    /\ seq = 0
    /\ heartbeatTimer = Null
    /\ reconnectTimer = Null
    /\ isConnecting = FALSE
    /\ shouldReconnect = TRUE
    /\ uriValid = TRUE
    /\ socks = [s \in SockIds |-> "NONE"]
    /\ timers = {}
    /\ wire = [s \in SockIds |-> <<>>]
    /\ step = <<>>
    /\ last = [op |-> "new"]
    /\ disconnectCalled = FALSE
    /\ bot = [NewBot EXCEPT !.isInitialized = FALSE,
                            !.websocketClient = FALSE]

\* what a call looks at afterwards
Call(method) ==
    [op |-> "call", method |-> method, initialized |-> bot.isInitialized,
     created |-> Created(Cur)]

Initialize ==
    \E ok \in BOOLEAN :
        /\ bot.pc # "sending"
        /\ Created(Cur) = {} /\ timers = {}
        /\ LET c == initialize(Cur, ok)
           IN  Commit(c, Call("initialize") @@ [failed |-> c.threw])

Start ==
    /\ bot.pc # "sending"
    /\ LET c == start(Cur)
       IN  Bounded(c) /\ Commit(c, Call("start") @@ [failed |-> c.threw])

Stop ==
    /\ bot.pc # "sending"
    /\ LET c == stop(Cur)
       IN  Commit(c, Call("stop") @@ [failed |-> c.threw])

SendPathCall ==
    \E path \in SendPaths, receiverId \in {"", "u1"}, arg \in {"", "hello"} :
        /\ bot.pc # "sending"
        /\ LET b == sendPath(bot, path, receiverId, arg)
           IN  Commit([Cur EXCEPT !.bot = b],
                      Call(path) @@ [failed |-> b.pc = "rejected"])

QueryCall ==
    \E name \in Queries :
        /\ bot.pc # "sending"
        /\ LET b == query(bot, name)
           IN  Commit([Cur EXCEPT !.bot = b],
                      Call(name) @@ [failed |-> b.pc = "rejected"])

SendChainCall ==
    \E receiverId \in {"", "u1"}, ch \in CallChains :
        /\ bot.pc # "sending"
        /\ LET b == sendMessageChain(
                        beforeCall(bot, receiverId,
                                   [kind |-> "chain", text |-> "",
                                    chain |-> ch]), 1)
           IN  Commit([Cur EXCEPT !.bot = b],
                      Call("sendMessageChain")
                          @@ [failed |-> b.pc = "rejected"])

BotNext ==
    \/ Initialize \/ Start \/ Stop \/ SendPathCall \/ QueryCall
    \/ SendChainCall \/ RequestSettles \/ SockOpen \/ SockFail \/ SockClose

BotSpec == BotInit /\ [][BotNext]_vars

-----------------------------------------------------------------------------
(* Observations *)

Sends(st) == SelectSeq(st, LAMBDA e : e.ev = "send")

EmittedIn(st, name) ==
    \E i \in DOMAIN st : st[i].ev = "emit" /\ st[i].name = name

\* the message events among the events of a task
MessageEvents(st) ==
    SelectSeq(st, LAMBDA e : e.ev = "emit" /\ e.name = "message")

\* the client holds a socket and that socket is open (the test of send())
SocketOpen == websocket # Null /\ ReadyState(socks[websocket]) = "OPEN"

\* the last task handled an inbound envelope of this type
Handled(type) ==
    /\ last.op = "message"
    /\ "type" \in DOMAIN last.frame
    /\ last.frame.type = type

\* the last task handled an inbound type-2 envelope whose data discriminator
\* is PUSH_SIXINTONG_MSG
HandledPush == Handled(2) /\ last.frame.dataType = "PUSH_SIXINTONG_MSG"

TypeOK ==
    /\ websocket \in SockIds \cup {Null}
    /\ seq \in Nat
    /\ isConnecting \in BOOLEAN /\ shouldReconnect \in BOOLEAN
    /\ socks \in [SockIds -> SockStates]
    /\ \A t \in timers : t.left \in 0..t.ms
    /\ websocket # Null => socks[websocket] # "NONE"
    /\ reconnectTimer \in {Null} \cup TimerIds(Cur)
    /\ heartbeatTimer \in {Null, Stale} \cup TimerIds(Cur)

-----------------------------------------------------------------------------
(* Claims *)

\* C1: on every socket, until its close is processed, the seq values of the
\* envelopes written to it increase by exactly 1 from one envelope to the
\* next: no gap and no repeat.
C1_SeqConsecutive ==
    \A s \in SockIds :
        \A i \in 1..(Len(wire[s]) - 1) : wire[s][i + 1] = wire[s][i] + 1

\* a reply was just written to a socket that carried an envelope before
C1_Witness ==
    /\ last.op \in {"message", "heartbeatTimer"}
    /\ Sends(step) # <<>>
    /\ \E s \in SockIds : Len(wire[s]) >= 2

\* C2 (as claimed): whenever a socket opens, the first envelope written in
\* reaction (the auth envelope) carries seq = 1, in every interleaving.
C2_FirstSeqIsInitial ==
    (last.op = "open" /\ Sends(step) # <<>>) => Sends(step)[1].msg.seq = 1

\* C3: handling an inbound type 2 with seq = S while the client's socket is
\* open writes exactly one envelope, of type 130 with ack = S.
C3_AckPerPush ==
    (Handled(2) /\ SocketOpen) =>
        Sends(step) = <<[ev |-> "send", sock |-> websocket,
                         msg |-> [type |-> 130, ack |-> last.frame.seq,
                                  seq |-> seq]]>>

C3_Witness ==
    /\ Handled(2) /\ SocketOpen
    /\ last.frame.seq = 7
    /\ Len(Sends(step)) = 1 /\ Sends(step)[1].msg.ack = 7

\* C4: the client starts a connection attempt on its own only in the
\* callback of a reconnect timer that was armed for the retry interval
\* (RetryInterval seconds) and has fully elapsed; a processed close starts
\* none; once disconnect() was called no reconnect timer is pending, so no
\* attempt follows on its own.
C4_ReconnectOnlyAfterInterval ==
    /\ EmittedIn(step, "reconnecting") =>
            \/ last.op = "connect"
            \/ /\ last.op = "reconnectTimer"
               /\ last.ms = 3 * 1000
               /\ last.left = 0
    /\ \A t \in Pending("reconnect") : t.ms = 3 * 1000
    /\ disconnectCalled => Pending("reconnect") = {}

\* the reconnect timer fired and its callback created a socket
C4_Witness ==
    /\ last.op = "reconnectTimer"
    /\ EmittedIn(step, "reconnecting")
    /\ websocket # Null /\ socks[websocket] = "CONNECTING"

\* C5: handling inbound 132 leaves exactly one heartbeat timer pending, armed
\* for 60000; handling inbound 140 leaves exactly one, armed for 30000; at
\* most one heartbeat timer is pending in every state.
C5_SingleHeartbeat ==
    /\ Cardinality(Pending("heartbeat")) <= 1
    /\ Handled(132) =>
            Pending("heartbeat") = {[id |-> heartbeatTimer, kind |-> "heartbeat",
                                     ms |-> 60000, left |-> 60000]}
    /\ Handled(140) =>
            Pending("heartbeat") = {[id |-> heartbeatTimer, kind |-> "heartbeat",
                                     ms |-> 30000, left |-> 30000]}

C5_Witness ==
    /\ Handled(140)
    /\ \E t \in Pending("heartbeat") : t.ms = 30000 /\ t.id = heartbeatTimer

\* C6: right after disconnect(), shouldReconnect is false, no timer of either
\* kind is pending and the client holds no socket; disconnect() called in
\* that state does not fail and changes nothing.
C6_DisconnectPost ==
    last.op = "disconnect" =>
        /\ ~shouldReconnect
        /\ Pending("reconnect") = {} /\ reconnectTimer = Null
        /\ Pending("heartbeat") = {} /\ heartbeatTimer = Null
        /\ websocket = Null
        /\ disconnect(Cur) = Cur

\* disconnect() was called on a client with an open socket
C6_Witness == last.op = "disconnect" /\ \E s \in SockIds : socks[s] = "CLOSING"

\* C7: once disconnect() has been called, shouldReconnect is false for ever
\* and no reconnect timer is armed again, whatever closes or fails later.
C7_DisconnectTerminal ==
    disconnectCalled =>
        /\ ~shouldReconnect
        /\ Pending("reconnect") = {} /\ reconnectTimer = Null

\* a socket closed or failed after disconnect() was called
C7_Witness ==
    /\ disconnectCalled
    /\ last.op \in {"close", "fail"}
    /\ EmittedIn(step, "disconnected")

\* C8: connect() while isConnecting is set or while the client's socket is
\* open returns at once: no socket is created, nothing is emitted or sent,
\* and no field of the client changes.
C8_ConnectNoOp == (isConnecting \/ SocketOpen) => connect(Cur) = Cur

\* connect() was called while the socket was open and did nothing
C8_Witness == last.op = "connect" /\ step = <<>> /\ SocketOpen

\* C9 (as claimed): every time a socket opens the client emits `connected`,
\* writes the auth envelope (type 1, token, appId) to that socket and the
\* pending connect() resolves; a type-1 envelope is written at no other time.
C9_AuthOnEveryOpen ==
    /\ last.op = "open" =>
            step = <<[ev |-> "emit", name |-> "connected"],
                     [ev |-> "send", sock |-> last.sock,
                      msg |-> [type |-> 1, token |-> Token, appId |-> AppId,
                               seq |-> seq]],
                     [ev |-> "connectResolved", sock |-> last.sock]>>
    /\ \A i \in DOMAIN step :
            (step[i].ev = "send" /\ step[i].msg.type = 1) => last.op = "open"

\* C10: when the close of an established socket has been processed,
\* `disconnected` was emitted, no heartbeat timer is pending, the counter is
\* 0, and a reconnect timer is pending exactly if shouldReconnect is true.
C10_CloseProcessed ==
    last.op = "close" =>
        /\ EmittedIn(step, "disconnected")
        /\ Pending("heartbeat") = {}
        /\ seq = 0
        /\ (Pending("reconnect") # {}) <=> shouldReconnect

\* an unexpected close armed the reconnect timer
C10_Witness ==
    /\ last.op = "close"
    /\ shouldReconnect
    /\ \E t \in Pending("reconnect") : t.left = t.ms

\* C11: when a socket fails during its handshake, afterwards the client is
\* not connecting, an `error` notice was emitted, and a reconnect timer is
\* pending exactly if shouldReconnect is true.
C11_FailedAttempt ==
    last.op = "fail" =>
        /\ ~isConnecting
        /\ EmittedIn(step, "error")
        /\ (Pending("reconnect") # {}) <=> shouldReconnect

\* a handshake failed before disconnect() was ever called: the timer is armed
C11_Witness ==
    /\ last.op = "fail"
    /\ shouldReconnect
    /\ \E t \in Pending("reconnect") : t.id = reconnectTimer /\ t.left = t.ms

\* C12: at most one reconnect timer is pending, and it is the one the client
\* holds; scheduleReconnect() called while one is pending changes nothing
\* (no second timer, no new deadline); the timer's callback clears the handle
\* before it calls connect(), so a timer pending after the callback is one
\* that connect() armed afresh.
C12_SingleReconnectTimer ==
    /\ Cardinality(Pending("reconnect")) <= 1
    /\ Pending("reconnect") = {t \in timers : t.id = reconnectTimer}
    /\ (reconnectTimer = Null) <=> (Pending("reconnect") = {})
    /\ reconnectTimer # Null => scheduleReconnect(Cur) = Cur
    /\ last.op = "reconnectTimer" =>
            \A t \in Pending("reconnect") : t.left = t.ms

\* a socket closed or failed while a reconnect timer armed earlier had already
\* run down: the close handler's scheduleReconnect() left it as it was
C12_Witness ==
    /\ last.op \in {"close", "fail"}
    /\ shouldReconnect
    /\ \E t \in Pending("reconnect") : t.id = reconnectTimer /\ t.left < t.ms

\* C13 (as claimed): in every state at most one socket created by the client
\* is connecting or open.
C13_SingleLiveSocket ==
    Cardinality({s \in SockIds : socks[s] \in {"CONNECTING", "OPEN"}}) <= 1

\* C14: a task writes an envelope of type 130, 132, 10 or 12 only if it is
\* the handling of an inbound envelope of type 2, 4, 129 or 138 respectively,
\* and then it writes at most one; hence along every behaviour the number of
\* envelopes sent of a reply type never exceeds the number of envelopes
\* received of its triggering type.
C14_RepliesOnlyToTrigger ==
    \A p \in {<<130, 2>>, <<132, 4>>, <<10, 129>>, <<12, 138>>} :
        Cardinality({i \in DOMAIN step :
                        step[i].ev = "send" /\ step[i].msg.type = p[1]})
            <= IF Handled(p[2]) THEN 1 ELSE 0

\* an inbound 4 was answered by a 132 after the heartbeat timer had fired
C14_Witness ==
    /\ Handled(4)
    /\ \E i \in DOMAIN step : step[i].ev = "send" /\ step[i].msg.type = 132
    /\ heartbeatTimer = Stale

\* C15: handling an inbound type 129 that carries secureKey = K while the
\* client's socket is open writes exactly one envelope: type 10, with
\* topic = aesEcbEncrypt(K, userId) and encrypt = true.
C15_SecureKeyReply ==
    (Handled(129) /\ "secureKey" \in DOMAIN last.frame /\ SocketOpen) =>
        Sends(step) =
            <<[ev |-> "send", sock |-> websocket,
               msg |-> [type |-> 10,
                        topic |-> aesEcbEncrypt(last.frame.secureKey, UserId),
                        encrypt |-> TRUE, seq |-> seq]]>>

\* the secure-channel response went out under the zero-filled 16-byte key
C15_Witness ==
    /\ Handled(129) /\ "secureKey" \in DOMAIN last.frame /\ SocketOpen
    /\ Len(Sends(step)) = 1
    /\ Sends(step)[1].msg.type = 10
    /\ Sends(step)[1].msg.topic.plaintext = UserId
    /\ Sends(step)[1].msg.topic.key =
            [i \in 1..16 |-> IF i <= Len(SecureKey) THEN SecureKey[i] ELSE 0]

\* C16: while the client's socket is open, handling an inbound type 4 writes
\* exactly one envelope, of type 132, and handling an inbound type 138 writes
\* exactly one envelope, of type 12, whose data is userAgent {appName,
\* appVersion} and additionalInfo {userId, sellerId} of the configuration;
\* handling either leaves both timers, armed or not, exactly as they were.
C16_PongAndClientInfo ==
    /\ (Handled(4) /\ SocketOpen) =>
            Sends(step) = <<[ev |-> "send", sock |-> websocket,
                             msg |-> [type |-> 132, seq |-> seq]]>>
    /\ (Handled(138) /\ SocketOpen) =>
            Sends(step) =
                <<[ev |-> "send", sock |-> websocket,
                   msg |-> [type |-> 12,
                            data |-> [userAgent |->
                                          [appName |-> AppName,
                                           appVersion |-> AppVersion],
                                      additionalInfo |->
                                          [userId |-> UserId,
                                           sellerId |-> SellerId]],
                            seq |-> seq]]>>
    /\ SocketOpen =>
            \A t \in {4, 138} :
                LET c == onMessage(Cur, [type |-> t])
                IN  /\ c.timers = timers
                    /\ c.heartbeatTimer = heartbeatTimer
                    /\ c.reconnectTimer = reconnectTimer

\* the client-info request was answered while a heartbeat timer was pending,
\* and the timer is still pending with its full interval
C16_Witness ==
    /\ Handled(138) /\ SocketOpen
    /\ Len(Sends(step)) = 1 /\ Sends(step)[1].msg.type = 12
    /\ \E t \in Pending("heartbeat") : t.id = heartbeatTimer /\ t.left = t.ms

\* C17 (as claimed): every envelope written by the callback of the heartbeat
\* timer has type 132.
C17_PingIs132 ==
    last.op = "heartbeatTimer" =>
        \A i \in DOMAIN step : step[i].ev = "send" => step[i].msg.type = 132

\* C17 (amended): the callback of the heartbeat timer writes, when the
\* client's socket is open, exactly one envelope, of type 4 with the fresh
\* seq and no other field, and nothing otherwise; an envelope of type 4 is
\* written by no other task.
C17_PingIs4 ==
    /\ last.op = "heartbeatTimer" =>
            Sends(step) = IF SocketOpen
                          THEN <<[ev |-> "send", sock |-> websocket,
                                  msg |-> [type |-> 4, seq |-> seq]]>>
                          ELSE <<>>
    /\ \A i \in DOMAIN step :
            (step[i].ev = "send" /\ step[i].msg.type = 4) =>
                last.op = "heartbeatTimer"

\* the timer armed for 60000 by an inbound 132 fired on the open socket
C17_Witness ==
    /\ last.op = "heartbeatTimer" /\ last.ms = 60000
    /\ SocketOpen
    /\ Len(Sends(step)) = 1 /\ Sends(step)[1].msg.type = 4

\* C18 (as claimed): the heartbeat is one-shot.  The callback of the timer
\* writes at most one ping and leaves no heartbeat timer pending; from a
\* state without a pending heartbeat timer, one becomes pending only by
\* handling an inbound 132 or 140; and no timer-driven ping is written on a
\* connection before its first inbound 132 or 140, in particular not by the
\* task that directly follows the socket's open.
C18_HeartbeatOneShot ==
    [][/\ last'.op = "heartbeatTimer" =>
            /\ Len(Sends(step')) <= 1
            /\ Pending("heartbeat")' = {}
       /\ (Pending("heartbeat") = {} /\ Pending("heartbeat")' # {}) =>
            (Handled(132)' \/ Handled(140)')
       /\ (last.op = "open" /\ last'.op = "heartbeatTimer") =>
            Sends(step') = <<>>]_vars

\* C19: a frame that does not parse, or whose type is none of 2, 4, 129, 132,
\* 138, 140, is dropped: in every state the message listener applied to it
\* writes nothing, emits nothing and changes no field of the client, no timer
\* and no socket, so whatever follows is handled as if the frame had not come.
C19_DroppedFrames ==
    /\ \A f \in {Garbage, [type |-> UnknownType]} : onMessage(Cur, f) = Cur
    /\ (last.op = "message"
            /\ last.frame \in {Garbage, [type |-> UnknownType]}) => step = <<>>

\* an unparseable frame came on the open socket after the auth envelope,
\* while the heartbeat timer was armed: all of it is still in place
C19_Witness ==
    /\ last.op = "message" /\ last.frame = Garbage
    /\ SocketOpen /\ last.sock = websocket
    /\ seq = 1 /\ step = <<>>
    /\ Pending("heartbeat") = {[id |-> heartbeatTimer, kind |-> "heartbeat",
                                ms |-> 60000, left |-> 60000]}

\* C20: send() leaves the caller's partial envelope as it was; the envelope
\* written to the socket carries the counter incremented by this very call as
\* seq, also when the caller's envelope had a seq of its own, and every other
\* field of the caller's envelope with its value; it has no further field.
C20_SendEnvelope ==
    last.op = "send" =>
        /\ last.after = last.data
        /\ seq = last.before + 1
        /\ Len(step) = 1
        /\ step[1].ev = "send" /\ step[1].sock = websocket
        /\ step[1].msg.seq = seq
        /\ DOMAIN step[1].msg = DOMAIN last.data \cup {"seq"}
        /\ \A f \in DOMAIN last.data \ {"seq"} : step[1].msg[f] = last.data[f]

\* the caller's envelope had seq = 41; the wire carries the counter instead
C20_Witness ==
    /\ last.op = "send"
    /\ last.data = [type |-> 130, ack |-> 7, seq |-> 41]
    /\ last.after.seq = 41
    /\ step[1].msg = [type |-> 130, ack |-> 7, seq |-> 3]

C22_ParseTotal ==
    last.op = "parseMessage" =>
        /\ ~last.result.threw
        /\ Len(last.result.chain) = 1
        /\ last.messageType \notin
                {"IMAGE", "VIDEO", "VOICE", "CARD", "NOTE", "EMOTICON"} =>
                last.result.chain =
                    <<[type |-> "text", data |-> [text |-> last.content.text]]>>
        /\ last.messageType = "CARD" =>
                last.result.chain =
                    <<[type |-> "card", data |-> [content |-> last.content.text]]>>
        /\ last.messageType = "NOTE" =>
                last.result.chain =
                    <<[type |-> "note", data |-> [noteId |-> last.content.text]]>>

\* a discriminator outside the 19 known ones, with a content that is a JSON
\* object, came back as that text
C22_Witness ==
    /\ last.op = "parseMessage"
    /\ last.messageType = "SOME_NEW_KIND"
    /\ last.content.parse = "object"
    /\ last.result.chain =
            <<[type |-> "text", data |-> [text |-> "{url:u2,duration:3}"]]>>

\* C23: when the content does not parse (JSON.parse throws, or it yields
\* null), IMAGE, VIDEO and VOICE return [Text{text = content}] and EMOTICON
\* returns [Emoticon{id = content}]; nothing is thrown to the caller.
C23_ParseFallback ==
    (last.op = "parseMessage" /\ last.content.parse \in {"throws", "null"}) =>
        /\ ~last.result.threw
        /\ last.messageType \in {"IMAGE", "VIDEO", "VOICE"} =>
                last.result.chain =
                    <<[type |-> "text", data |-> [text |-> last.content.text]]>>
        /\ last.messageType = "EMOTICON" =>
                last.result.chain =
                    <<[type |-> "emoticon", data |-> [id |-> last.content.text]]>>

\* parseMessage("IMAGE", "{not json") returned the text
C23_Witness ==
    /\ last.op = "parseMessage"
    /\ last.messageType = "IMAGE"
    /\ last.content = NotJson("{not json")
    /\ last.result = Returned(<<MessageBuilder_text("{not json")>>)


\* C24 as stated: the text projection of a chain is the concatenation, without
\* separator, of the renderings of its segments: a Text segment as its text, an
\* At segment as "@" and the name or else the user id, an Image, Video, Voice,
\* Card, Note or Emoticon segment as the fixed label of its kind whatever its
\* data, any other segment as the generic label. (Violated: an Emoticon
\* segment with a name is rendered as that name.)
C24_FixedPlaceholders ==
    last.op = "chain" =>
        last.text = join([i \in DOMAIN last.chain |->
            LET sg == last.chain[i]
            IN  CASE sg.type = "text" -> sg.data.text
                  [] sg.type = "at" ->
                        "@" \o (IF "name" \in DOMAIN sg.data
                                THEN sg.data.name ELSE sg.data.userId)
                  [] sg.type \in {"image", "video", "voice", "card", "note",
                                  "emoticon"} -> Placeholder(sg.type)
                  [] OTHER -> "[unknown message]"])

\* C24 amended: the projection of the empty chain is the empty string, the
\* projection of a chain is the projection of its first segment directly
\* followed by the projection of the rest, and one segment is rendered as: a
\* Text segment its text; an At segment "@" and the name or else the user id;
\* an Image, Video, Voice, Card or Note segment the fixed label of its kind
\* whatever its data; an Emoticon segment its name when it has a name that is
\* not empty and the fixed emoticon label otherwise; any other segment the
\* generic label.
C24_ChainToText ==
    last.op = "chain" =>
        LET chain == last.chain
            sg == chain[1]
        IN  /\ Len(chain) = 0 => last.text = ""
            /\ Len(chain) > 1 =>
                    last.text = chainToText(<<sg>>) \o chainToText(Tail(chain))
            /\ Len(chain) = 1 =>
                    last.text =
                        CASE sg.type = "text" -> sg.data.text
                          [] sg.type = "at" /\ "name" \in DOMAIN sg.data ->
                                "@" \o sg.data.name
                          [] sg.type = "at" -> "@" \o sg.data.userId
                          [] sg.type = "image" -> "[image]"
                          [] sg.type = "video" -> "[video]"
                          [] sg.type = "voice" -> "[voice]"
                          [] sg.type = "card" -> "[card]"
                          [] sg.type = "note" -> "[note]"
                          [] /\ sg.type = "emoticon"
                             /\ "name" \in DOMAIN sg.data
                             /\ sg.data.name # "" -> sg.data.name
                          [] sg.type = "emoticon" -> "[emoticon]"
                          [] OTHER -> "[unknown message]"

\* a named emoticon between two other segments was projected
C24_Witness ==
    /\ last.op = "chain"
    /\ last.chain = <<MessageBuilder_emoticon("e1", [name |-> "smile"]),
                      MessageBuilder_image([url |-> "u1"])>>
    /\ last.text = "smile[image]"

\* C25: the text content of a chain is the concatenation, in order, of the
\* texts of its Text segments, every other segment being skipped; for a chain
\* of Text segments only it equals the text projection.
C25_TextContent ==
    last.op = "chain" =>
        LET chain == last.chain
        IN  /\ Len(chain) = 0 => last.textContent = ""
            /\ Len(chain) > 0 =>
                    last.textContent =
                        (IF chain[1].type = "text" THEN chain[1].data.text
                         ELSE "") \o getTextContent(Tail(chain))
            /\ (\A i \in DOMAIN chain : chain[i].type = "text") =>
                    last.text = last.textContent

\* two different texts were read from a chain
C25_Witness ==
    /\ last.op = "chain"
    /\ last.chain = <<MessageBuilder_text("hi"), MessageBuilder_text("!")>>
    /\ last.textContent = "hi!"
    /\ last.text = "hi!"


\* C26: a reply sends only to the sender id of its event.  For a string it
\* calls the text send path exactly once, with the string.  For a chain it
\* calls one send path per segment, in chain order, and calls the next one
\* only when the previous one has settled: the calls made are the segments
\* 1..n without gap, and all but possibly the last have their result; when
\* the reply returns, every segment has been sent, the results are as many
\* as the segments, and the i-th result is the response to the i-th call or
\* the error that it raised.
C26_Reply ==
    bot.pc # "idle" =>
        /\ last.op = "reply" => bot.userId = last.event.userId
        /\ \A k \in DOMAIN bot.sent : bot.sent[k].receiverId = bot.userId
        /\ bot.x.kind = "string" =>
                /\ Len(bot.sent) = 1
                /\ bot.sent[1].path = "sendText"
                /\ bot.sent[1].arg = bot.x.text
        /\ bot.x.kind = "chain" =>
                /\ \A k \in DOMAIN bot.sent : bot.sent[k].segment = k
                /\ Len(bot.sent) <= Len(bot.x.chain)
                /\ Len(bot.sent) =
                        Len(bot.results) + (IF bot.pc = "sending" THEN 1 ELSE 0)
                /\ bot.pc = "returned" => Len(bot.results) = Len(bot.x.chain)
                /\ \A k \in DOMAIN bot.results :
                        \/ "error" \in DOMAIN bot.results[k]
                        \/ bot.results[k].response = k

\* a reply with a chain of two segments returned: the first segment failed
\* and the second one was sent
C26_Witness ==
    /\ bot.pc = "returned"
    /\ bot.x.kind = "chain"
    /\ Len(bot.x.chain) = 2
    /\ bot.results = <<[error |-> "request failed"], [response |-> 2]>>
    /\ bot.userId = "u1"

\* C27 as stated: the task that handles an inbound type-2 envelope whose data
\* discriminator is PUSH_SIXINTONG_MSG emits exactly one message event, and
\* no other task emits a message event.  (Violated: a push without a
\* sixin_message payload, or one whose ack could not be sent, emits none.)
C27_OneMessagePerPush ==
    Len(MessageEvents(step)) = IF HandledPush THEN 1 ELSE 0

\* C27 amended: a task emits at most one message event.  It emits one exactly
\* when it handles an inbound type-2 envelope whose data discriminator is
\* PUSH_SIXINTONG_MSG, that carries a sixin_message payload and whose ack was
\* sent; the event is the one built from that envelope.  A push without
\* payload, a push whose ack could not be sent, and every other envelope or
\* task emit no message event.
C27_OneMessagePerDispatchedPush ==
    LET dispatched == /\ HandledPush
                      /\ "payload" \in DOMAIN last.frame
                      /\ Sends(step) # <<>>
    IN  /\ Len(MessageEvents(step)) = IF dispatched THEN 1 ELSE 0
        /\ dispatched =>
                /\ MessageEvents(step)[1].arg.raw = last.frame
                /\ MessageEvents(step)[1].arg.userId
                        = last.frame.payload.sender_user_id
                /\ Sends(step)[1].msg.type = 130

\* a push with a payload was acknowledged and gave its message event
C27_Witness ==
    /\ HandledPush
    /\ Len(MessageEvents(step)) = 1
    /\ MessageEvents(step)[1].arg.userId = "u1"
    /\ MessageEvents(step)[1].arg.chain = <<MessageBuilder_text("hello")>>
    /\ EmittedIn(step, "rawMessage")

\* C28: when several frames arrive together and their handlers overlap, the
\* outcome is in arrival order.  The replies written in the task are the
\* replies to the frames of types 2 and 4, one each, in the order of these
\* frames, with consecutive seq (or none is written, the socket not being
\* open); the heartbeat timer pending after the task has the interval of the
\* last frame of type 132 or 140; the message events of the task are those
\* of the pushes, in the order of the pushes.
C28_ArrivalOrder ==
    last.op = "messages" =>
        LET frames == last.frames
            triggers == SelectSeq(frames, LAMBDA f : f.type \in {2, 4})
            beats == SelectSeq(frames, LAMBDA f : f.type \in {132, 140})
            pushes == SelectSeq(frames, LAMBDA f : f.type = 2)
            sent == Sends(step)
            events == MessageEvents(step)
        IN  /\ sent # <<>> =>
                /\ Len(sent) = Len(triggers)
                /\ \A k \in DOMAIN sent :
                        IF triggers[k].type = 2
                        THEN /\ sent[k].msg.type = 130
                             /\ sent[k].msg.ack = triggers[k].seq
                        ELSE sent[k].msg.type = 132
                /\ \A k \in 1..(Len(sent) - 1) :
                        sent[k + 1].msg.seq = sent[k].msg.seq + 1
                /\ Len(events) = Len(pushes)
                /\ \A k \in DOMAIN events : events[k].arg.raw = pushes[k]
            /\ sent = <<>> => events = <<>>
            /\ beats # <<>> =>
                    Pending("heartbeat") =
                        {[id |-> heartbeatTimer, kind |-> "heartbeat",
                          ms |-> IF beats[Len(beats)].type = 132
                                 THEN HeartbeatAckInterval
                                 ELSE HeartbeatExtInterval,
                          left |-> IF beats[Len(beats)].type = 132
                                   THEN HeartbeatAckInterval
                                   ELSE HeartbeatExtInterval]}

\* two pushes arrived together on the open socket: two acks, then the two
\* message events, each in the order of the pushes
C28_Witness ==
    /\ last.op = "messages"
    /\ \A k \in DOMAIN last.frames : last.frames[k].type = 2
    /\ last.frames[1].seq = 3 /\ last.frames[2].seq = 5
    /\ Len(Sends(step)) = 2
    /\ Sends(step)[1].msg.ack = 3 /\ Sends(step)[2].msg.ack = 5
    /\ Len(MessageEvents(step)) = 2
    /\ MessageEvents(step)[1].arg.userId = "u1"
    /\ MessageEvents(step)[2].arg.userId = "unknown"
    /\ step[2].ev = "send"

\* C29 as stated: when the task of an inbound frame that calls for a reply
\* (type 2, 4 or 138, or 129 with its secureKey) could not write the reply,
\* the socket not being open, the task emits an error notice; it writes
\* nothing and arms no timer to send again.  (Violated: the rejection of
\* handleMessage is handled by nobody and no error notice is emitted.)
C29_ReplyFailureSurfaced ==
    (/\ last.op = "message"
     /\ last.frame # Garbage
     /\ \/ last.frame.type \in {2, 4, 138}
        \/ last.frame.type = 129 /\ "secureKey" \in DOMAIN last.frame
     /\ Sends(step) = <<>>)
        => EmittedIn(step, "error")

\* C30 as stated: the task of an inbound type 129 without secureKey emits an
\* error notice and writes no envelope.  (Violated: the exception of the
\* encryption rejects handleMessage, which nobody handles; no error notice
\* is emitted.)
C30_HandshakeFailureSurfaced ==
    (Handled(129) /\ "secureKey" \notin DOMAIN last.frame)
        => (EmittedIn(step, "error") /\ Sends(step) = <<>>)

\* C31: when the heartbeat timer fires while the client holds no open socket,
\* the callback writes nothing, leaves the sequence counter, the socket
\* handle, shouldReconnect, isConnecting and the reconnect timer as they are,
\* arms no timer (the fired timer is gone, no other timer changes) and only
\* logs the failure: in every state, for every expired heartbeat timer, and
\* in the task that just ran.
C31_HeartbeatFailureLogged ==
    /\ ~SocketOpen =>
            \A t \in {u \in timers : u.kind = "heartbeat" /\ u.left = 0} :
                LET c == heartbeatCallback(Fired(Cur, t))
                IN  /\ c.step = <<[ev |-> "logError"]>>
                    /\ c.seq = seq /\ c.wire = wire
                    /\ c.websocket = websocket /\ c.socks = socks
                    /\ c.timers = timers \ {t}
                    /\ c.reconnectTimer = reconnectTimer
                    /\ c.shouldReconnect = shouldReconnect
                    /\ c.isConnecting = isConnecting
    /\ (last.op = "heartbeatTimer" /\ Sends(step) = <<>>) =>
            /\ step = <<[ev |-> "logError"]>>
            /\ Pending("heartbeat") = {}

\* the heartbeat timer fired after the peer had started to close the socket:
\* the failure was logged, the counter still stands at the auth envelope
C31_Witness ==
    /\ last.op = "heartbeatTimer"
    /\ ~SocketOpen
    /\ step = <<[ev |-> "logError"]>>
    /\ seq = 1
    /\ websocket # Null /\ socks[websocket] = "ENDING"
    /\ timers = {}

\* C32 as stated: when the client's handle refers to a socket and the close
\* event of another, earlier socket is processed, the handle, the sequence
\* counter and the heartbeat timer stay as they are.  (Violated: the close
\* listener of the earlier socket runs cleanup() on the client, whatever
\* socket the handle refers to.)
C32_StaleCloseHarmless ==
    \A s \in SockIds :
        (socks[s] \in Established /\ websocket # Null /\ websocket # s) =>
            LET c == onClose(Closed(Cur, s))
            IN  /\ c.websocket = websocket
                /\ c.seq = seq
                /\ c.heartbeatTimer = heartbeatTimer
                /\ {t \in c.timers : t.kind = "heartbeat"} = Pending("heartbeat")

\* C33 as stated, for the states in which the client holds no socket at all
\* (before the first connect, after a processed close, after disconnect()):
\* no heartbeat timer is pending.  (Violated: a 132 or 140 delivered by the
\* socket that disconnect() has asked to close arms the timer again.)
C33_HeartbeatOnlyWithSocket ==
    websocket = Null => Pending("heartbeat") = {}

\* C34 as stated, its second half: the task in which a connection attempt
\* fails before its socket has opened emits no disconnected notice.
\* (Violated: the close listener emits disconnected for every socket that
\* closes, opened or not.)
C34_DisconnectedOnlyAfterConnected ==
    last.op = "fail" => ~EmittedIn(step, "disconnected")

\* C35: with disconnect() never called, every task in which a connection
\* attempt fails or a socket closes is eventually followed by a task that
\* starts a connection attempt (connect() gets past its guard and emits
\* reconnecting).
C35_EventuallyRetries ==
    (last.op \in {"fail", "close"})
        ~> (last.op \in {"connect", "reconnectTimer"}
                /\ EmittedIn(step, "reconnecting"))

\* C36: in the task of an inbound type-2 envelope, whatever is handed to the
\* observers (rawMessage, message) comes after the ack: the first event of
\* the task is the write of the envelope of type 130 whose ack is the seq of
\* the push; and when no ack was written, the socket not being open,
\* nothing is handed to the observers.
C36_AckBeforeDispatch ==
    Handled(2) =>
        /\ (EmittedIn(step, "rawMessage") \/ EmittedIn(step, "message")) =>
                /\ step[1].ev = "send"
                /\ step[1].msg.type = 130
                /\ step[1].msg.ack = last.frame.seq
                /\ Len(Sends(step)) = 1
        /\ Sends(step) = <<>> =>
                /\ ~EmittedIn(step, "rawMessage")
                /\ ~EmittedIn(step, "message")
                /\ step = <<[ev |-> "unhandledRejection"]>>

\* a push was acknowledged and then dispatched
C36_Witness ==
    /\ Handled(2)
    /\ Len(step) = 3
    /\ step[1].ev = "send" /\ step[1].msg.ack = 3
    /\ step[2].ev = "emit" /\ step[2].name = "rawMessage"
    /\ step[3].ev = "emit" /\ step[3].name = "message"

\* C37: a send() that throws (no socket, socket not open, envelope without
\* type) writes nothing and leaves the sequence counter, the sockets and the
\* timers as they were; a send() that succeeds carries the counter before
\* the call plus one; hence the successful send that follows a failed one
\* carries the seq that the failed one would have carried.
C37_FailedSendNoEffect ==
    /\ [](last.op = "trySend" =>
            IF last.threw
            THEN /\ step = <<>>
                 /\ seq = last.before
                 /\ wire = last.wireBefore
            ELSE /\ Len(step) = 1
                 /\ step[1].msg.seq = last.before + 1
                 /\ seq = last.before + 1)
    /\ [][(/\ last.op = "trySend" /\ last.threw
           /\ last'.op = "trySend" /\ ~last'.threw)
              => /\ step'[1].msg.seq = last.before + 1
                 /\ UNCHANGED <<websocket, socks, timers, heartbeatTimer,
                                reconnectTimer>>]_vars

\* an envelope without type was refused on the open socket after three
\* envelopes had been sent: the counter still stands at 3
C37_Witness ==
    /\ last.op = "trySend" /\ last.threw
    /\ last.data = [ack |-> 7]
    /\ SocketOpen
    /\ seq = 3 /\ wire[1] = <<1, 2, 3>>

\* C38: a failed connection attempt delivers exactly one `error` notice to
\* the observers.
C38_SingleErrorNotice ==
    last.op = "fail" =>
        Cardinality({i \in DOMAIN step :
                        step[i].ev = "emit" /\ step[i].name = "error"}) = 1

\* C39: the promise of connect() never rejects.  The task in which a socket
\* fails before it opened resolves the promise of the connect() that created
\* it, once, after the `error` notice of the catch block; a connect() whose
\* new WebSocket throws resolves in its own task, again after the notice.  In
\* every state in which an attempt is in progress, a further connect()
\* returns at its first statement: it throws nothing, changes nothing, emits
\* nothing and leaves the socket of the attempt as it is.
C39_ConnectNeverRejects ==
    /\ \A i \in DOMAIN step : step[i].ev # "connectRejected"
    /\ (last.op = "fail" \/ (last.op = "connect" /\ ~uriValid /\ step # <<>>)) =>
            /\ step[Len(step)].ev = "connectResolved"
            /\ Cardinality({i \in DOMAIN step :
                                step[i].ev = "connectResolved"}) = 1
            /\ \E i \in 1..(Len(step) - 1) :
                    /\ step[i].ev = "emit" /\ step[i].name = "error"
                    /\ \A j \in (i + 1)..(Len(step) - 1) :
                            step[j].ev # "emit"
    /\ isConnecting => connect(Cur) = Cur

\* a socket failed before it opened; the promise of its connect() resolved
\* while the application had already called disconnect()
C39_Witness ==
    /\ last.op = "fail"
    /\ disconnectCalled
    /\ step[Len(step)].ev = "connectResolved"
    /\ EmittedIn(step, "error")

\* C40: a call of start() or of a send or query operation made while the bot
\* is not initialized fails, issues no request and creates no socket; a call
\* of stop() never fails.
C40_UninitializedCallsFail ==
    /\ (/\ last.op = "call" /\ ~last.initialized
        /\ last.method \notin {"initialize", "stop"}) =>
            /\ last.failed
            /\ bot.pc # "sending"
            /\ Created(Cur) = last.created
    /\ (last.op = "call" /\ last.method = "stop") => ~last.failed

====
